---------------------------- MODULE Spec2Model ----------------------------
(***************************************************************************)
(* AlgoRhythm: the classification-and-reconciliation pipeline.             *)
(*                                                                         *)
(*   SpecSync      create_playlists (src/app.py) driving                   *)
(*                 get_or_create_playlist and add_tracks_to_playlist       *)
(*                 (src/spotify_client.py) against the remote service.     *)
(*   SpecClassify  classify_all_tracks / _classify_batch                   *)
(*                 (src/gemini_classifier.py) pulled by the loop of        *)
(*                 _show_ai_interface (src/app.py).                        *)
(*                                                                         *)
(* Conventions.  A track URI is an integer: n > 0 stands for               *)
(* "spotify:track:n", n <= 0 for a URI of another scheme (a local file).   *)
(* A playlist id is a pair <<kind, n>>; <<>> is Python's None.  A text is  *)
(* a tuple of one-character strings, so that lower(), strip(), split()     *)
(* and the substring test are computed, not assumed.                       *)
(***************************************************************************)
EXTENDS Integers, Sequences, FiniteSets, TLC

VARIABLES
    \* ---- remote collection service (Spotify) ----
    remote,             \* playlist id -> [name, tracks, writable]
    listing,            \* ids returned by current_user_playlists, in order
    nCreated,           \* playlists created so far (fresh ids)
    \* ---- session state read by create_playlists ----
    all_buckets,        \* sequence of [name, bucket]: the dict, in its order
    mapping_file,       \* user_data/playlist_mapping.json: absent | valid | malformed
    pl_config,          \* category name -> override id or None
    has_created_info,   \* "created_info" in st.session_state
    session_info,       \* st.session_state["created_info"]
    playlists_created,  \* "playlists_created" in st.session_state
    \* ---- create_playlists: locals and position ----
    sync_pc,            \* idle | resolve | write | done | stopped | raised
    idx,                \* position in all_buckets
    playlist_id,        \* result of get_or_create_playlist
    created_info,       \* the local list
    \* ---- observation of the sync (history) ----
    syncs,              \* calls of create_playlists so far
    lastResolve,        \* what the last get_or_create_playlist saw and did
    lastWrite,          \* what the last add_tracks_to_playlist saw and did
    maxRequest,         \* most items carried by one write request so far
    written,            \* this sync: category -> id it was written to
    snapshots,          \* per returned sync: category -> remote contents
    \* ---- classification: inputs and session state ----
    tracks,             \* the liked songs: [label, track_id]
    valid_order,        \* iteration order of set(GENRE_PLAYLISTS) in this process
    is_running,         \* st.session_state["is_running"]
    classifications,    \* st.session_state["classifications"]
    genre_buckets,      \* st.session_state["genre_buckets"]
    \* ---- classify_all_tracks / _classify_batch: locals and position ----
    gen_pc,             \* idle | attempt | yielded | pull
    offset,             \* i of classify_all_tracks
    attempt,            \* attempt of _classify_batch
    batch_result,       \* what the generator yielded last
    \* ---- observation of the classification (history) ----
    runs,               \* calls of classify_all_tracks so far
    calls,              \* generate_content calls for the current batch
    delays,             \* the retry sleeps of the current batch, in order
    parsedAt,           \* first attempt of the batch whose json.loads returned
    returnedAt,         \* the attempt of the batch that returned result
    seen,               \* what the response behind batch_result held
    dispatched,         \* this run: the batches handed to _classify_batch
    steps,              \* this run: the (batch_num, total_batches) yielded
    handed,             \* this run: label -> categories last yielded for it
    kept,               \* this run: label -> categories last merged for it
    stopped,            \* the run was ended by the caller, not by the loop
    pauses,             \* this run: the sleeps between batches, in order
    \* ---- classifier.py: the interval table and the bucket builders ----
    YEAR_PLAYLISTS,     \* the dict, in its order: sequence of [name, start, end]
    build_pc,           \* idle | called | year | genre
    year_calls,         \* the last two calls of classify_by_year: [track, returned]
    build_in,           \* arguments of the last build: [tracks, ai_results]
    year_buckets,       \* what build_year_buckets returned
    genre_out           \* what build_genre_buckets returned

syncVars == <<remote, listing, nCreated, all_buckets, mapping_file, pl_config,
              has_created_info, session_info, playlists_created, sync_pc,
              idx, playlist_id, created_info, syncs, lastResolve, lastWrite,
              maxRequest, written, snapshots>>

classifyVars == <<tracks, valid_order, is_running, classifications,
                  genre_buckets, gen_pc, offset, attempt, batch_result, runs,
                  calls, delays, parsedAt, returnedAt, seen, dispatched,
                  steps, handed, kept, stopped, pauses>>

buildVars == <<YEAR_PLAYLISTS, build_pc, year_calls, build_in, year_buckets,
               genre_out>>

vars == <<syncVars, classifyVars, buildVars>>

-----------------------------------------------------------------------------
(* Bounds of the model *)

MaxSyncs == 2
MaxChunks == 2

(* Program constants *)

chunk_size == 100

-----------------------------------------------------------------------------
(* Generic helpers *)

None == <<>>

Min(a, b) == IF a <= b THEN a ELSE b

Max(a, b) == IF a >= b THEN a ELSE b


-----------------------------------------------------------------------------
(* The remote collection service, as seen through its HTTP statuses *)

Statuses == {"200", "201", "403", "500", "exc"}

\* resp.status_code in [200, 201]; "exc" is requests raising instead
OkStatus(s) == s \in {"200", "201"}

\* PUT .../tracks {"uris": payload}: replaces the membership when accepted
RemotePut(current, payload, status) ==
    IF OkStatus(status) THEN payload ELSE current

\* POST .../tracks {"uris": payload}: appends when accepted
RemotePost(current, payload, status) ==
    IF OkStatus(status) THEN current \o payload ELSE current

\* the statuses a playlist can answer a write with
WriteStatuses(pl) == IF pl.writable THEN Statuses ELSE Statuses \ {"200", "201"}

-----------------------------------------------------------------------------
(* add_tracks_to_playlist *)

\* uri and uri.startswith("spotify:track:")
IsTrackUri(uri) == uri > 0

\* range(0, len(track_uris), chunk_size)
NumChunks(track_uris) == (Len(track_uris) + chunk_size - 1) \div chunk_size

\* track_uris[i : i + chunk_size], for the c-th value of i
Chunk(track_uris, c) ==
    SubSeq(track_uris, (c - 1) * chunk_size + 1,
           Min(c * chunk_size, Len(track_uris)))

valid_chunk(chunk) == SelectSeq(chunk, IsTrackUri)

\* the payloads of the POST requests of the loop, in order: a chunk that is
\* empty after the filter is skipped (continue) and sends nothing
Payloads(track_uris) ==
    LET all == [c \in 1..NumChunks(track_uris) |->
                    valid_chunk(Chunk(track_uris, c))]
        IsRequest(p) == p # <<>>
    IN  SelectSeq(all, IsRequest)

RECURSIVE PostAll(_, _, _)
PostAll(current, payloads, statuses) ==
    IF payloads = <<>> THEN current
    ELSE PostAll(RemotePost(current, Head(payloads), Head(statuses)),
                 Tail(payloads), Tail(statuses))

\* The whole call.  token: get_cached_token() gave one; clear: the status of
\* the clearing PUT; posted: how many POSTs were accepted before one was
\* not (Len(Payloads) when all were).  Result: the playlist's tracks, whether
\* the call raised, and the size of the largest request it sent.
add_tracks(old, track_uris, token, clear, posted) ==
    LET payloads == Payloads(track_uris)
        sent     == SubSeq(payloads, 1, Min(posted + 1, Len(payloads)))
        statuses == [i \in 1..Len(sent) |-> IF i <= posted THEN "201" ELSE "403"]
        sizes    == {Len(sent[i]) : i \in 1..Len(sent)}
    IN  IF ~token
        THEN [tracks |-> old, raised |-> TRUE, largest |-> 0]
        ELSE IF track_uris = <<>>
        THEN [tracks |-> RemotePut(old, <<>>, clear), raised |-> clear = "exc",
              largest |-> 0]
        ELSE [tracks  |-> PostAll(RemotePut(old, <<>>, clear), sent, statuses),
              raised  |-> posted < Len(payloads),
              largest |-> IF sizes = {} THEN 0
                          ELSE CHOOSE m \in sizes : \A n \in sizes : n <= m]

-----------------------------------------------------------------------------
(* get_or_create_playlist *)

\* get_all_user_playlists: the items of the listing, in its order
Playlists == [i \in 1..Len(listing) |->
                 [id |-> listing[i], name |-> remote[listing[i]].name]]

\* for pl in playlists: if pl["name"] == name: return pl["id"]
FindByName(playlists, name) ==
    LET hits == {i \in 1..Len(playlists) : playlists[i].name = name}
    IN  IF hits = {} THEN None
        ELSE playlists[CHOOSE i \in hits : \A j \in hits : i <= j].id

\* a get_or_create_playlist that does not search the listing
ExistingId_KnownOnly(known_id, reach, playlists, name) ==
    IF known_id # None /\ reach THEN known_id ELSE None

\* a get_or_create_playlist that searches by name before it looks at known_id
ExistingId_NameFirst(known_id, reach, playlists, name) ==
    IF FindByName(playlists, name) # None THEN FindByName(playlists, name)
    ELSE IF known_id # None /\ reach THEN known_id ELSE None

\* steps 1 and 3 of get_or_create_playlist: the id it returns without
\* creating, or None when it has to create.  reach: sp.playlist(known_id)
\* did not raise.
ExistingId(known_id, reach, playlists, name) ==
    IF known_id # None /\ reach THEN known_id
    ELSE FindByName(playlists, name)

NewId == <<"new", nCreated + 1>>

-----------------------------------------------------------------------------
(* create_playlists: the inputs of the model *)

YearCategory == "2010 - 2019"
GenreCategory == "Pop & Radio Hits"

U1 == <<"user", 1>>
U2 == <<"user", 2>>

OldTracks == <<900>>

\* n track URIs
Uris(n) == [i \in 1..n |-> i]

\* n URIs, the second of them a local file's
Mixed(n) == [i \in 1..n |-> IF i = 2 THEN 0 - i ELSE i]

BucketLengths == {0, 1, chunk_size, (MaxChunks - 1) * chunk_size + 1}

Buckets == {Uris(n) : n \in BucketLengths} \cup {Mixed(2)}

Playlist(name, items, writable) ==
    [name |-> name, tracks |-> items, writable |-> writable]

\* the mapping file: not there, holding {"2010 - 2019": id of U1}, or not JSON
MappingFiles == {"absent", "valid", "malformed"}

\* if os.path.exists(mapping_file): try: session["playlist_config"] =
\* json.load(f); except: pass -- and session.get("playlist_config", {})
LoadMapping(file) == IF file = "valid" THEN (YearCategory :> U1) ELSE <<>>

\* pl_config.get(name), for the names of the buckets
Configured(config) ==
    [name \in {YearCategory, GenreCategory} |->
        IF name \in DOMAIN config THEN config[name] ELSE None]

\* what the user has on the service before the first sync
InitRemotes ==
    { [remote |-> <<>>, listing |-> <<>>],
      \* a followed playlist of that name, owned by somebody else
      [remote |-> (U1 :> Playlist(YearCategory, OldTracks, FALSE)),
       listing |-> <<U1>>],
      \* somebody else's public playlist: readable, not writable, not listed
      [remote |-> (U1 :> Playlist("Road Trip", OldTracks, FALSE)),
       listing |-> <<>>],
      \* an own playlist of another name
      [remote |-> (U1 :> Playlist("Road Trip", OldTracks, TRUE)),
       listing |-> <<U1>>],
      \* two playlists of the category's name
      [remote |-> (U1 :> Playlist(YearCategory, OldTracks, TRUE))
                  @@ (U2 :> Playlist(YearCategory, <<>>, TRUE)),
       listing |-> <<U2, U1>>] }

\* the classification half before anything was classified
ClassifyIdle ==
    /\ is_running = FALSE
    /\ classifications = <<>>
    /\ genre_buckets = <<>>
    /\ gen_pc = "idle"
    /\ offset = 0
    /\ attempt = 0
    /\ batch_result = <<>>
    /\ runs = 0
    /\ calls = 0
    /\ delays = <<>>
    /\ parsedAt = 0
    /\ returnedAt = 0
    /\ seen = [unknown |-> FALSE, longest |-> 0, raw |-> <<>>]
    /\ dispatched = <<>>
    /\ steps = <<>>
    /\ handed = <<>>
    /\ kept = <<>>
    /\ stopped = FALSE
    /\ pauses = <<>>

\* classifier.py before any of its functions was called, the table not loaded
BuildIdle ==
    /\ YEAR_PLAYLISTS = <<>>
    /\ build_pc = "idle"
    /\ year_calls = <<>>
    /\ build_in = <<>>
    /\ year_buckets = <<>>
    /\ genre_out = <<>>

NoResolve == [name |-> "", known_id |-> None, reach |-> FALSE,
              playlists |-> <<>>, create |-> FALSE, returned |-> None]

NoWrite == [id |-> None, uris |-> <<>>, before |-> <<>>, clear |-> "exc",
            returned |-> FALSE]

InitSync ==
    /\ \E r \in InitRemotes : remote = r.remote /\ listing = r.listing
    /\ nCreated = 0
    /\ \E b1 \in Buckets, b2 \in {<<>>, Uris(1)} :
          all_buckets = << [name |-> YearCategory, bucket |-> b1],
                           [name |-> GenreCategory, bucket |-> b2] >>
    /\ mapping_file \in MappingFiles
    /\ pl_config = Configured(LoadMapping(mapping_file))
    /\ has_created_info = FALSE
    /\ session_info = <<>>
    /\ playlists_created = FALSE
    /\ sync_pc = "idle"
    /\ idx = 0
    /\ playlist_id = None
    /\ BuildIdle
    /\ created_info = <<>>
    /\ syncs = 0
    /\ lastResolve = NoResolve
    /\ lastWrite = NoWrite
    /\ maxRequest = 0
    /\ written = <<>>
    /\ snapshots = <<>>
    /\ tracks = <<>>
    /\ valid_order = <<>>
    /\ ClassifyIdle

-----------------------------------------------------------------------------
(* create_playlists: the loop *)

\* a loop that passes through every category, empty or not
NextCategory_Every(i) == IF i < Len(all_buckets) THEN i + 1 ELSE 0

\* for idx, (name, bucket) in enumerate(...): if not bucket: continue
NextCategory(i) ==
    LET later == {j \in (i + 1)..Len(all_buckets) : all_buckets[j].bucket # <<>>}
    IN  IF later = {} THEN 0 ELSE CHOOSE j \in later : \A k \in later : j <= k

\* created_info is session_state's own list when the key exists, so an
\* append to it is an append to the session's list
Report(info) ==
    /\ created_info' = info
    /\ session_info' = IF has_created_info THEN info ELSE session_info

\* the lines after the try block: the run is marked as completed
Complete(info, normal) ==
    /\ sync_pc' = "done"
    /\ playlists_created' = TRUE
    /\ created_info' = info
    /\ session_info' = info
    /\ has_created_info' = TRUE
    /\ snapshots' = IF normal
                    THEN Append(snapshots,
                                [c \in DOMAIN written' |->
                                    remote'[written'[c]].tracks])
                    ELSE snapshots

\* create_playlists up to its loop; the button is only offered while the
\* session holds no "playlists_created"
SyncStart ==
    /\ UNCHANGED <<classifyVars, buildVars, mapping_file>>
    /\ sync_pc \in {"idle", "done", "stopped", "raised"}
    /\ ~playlists_created
    /\ syncs < MaxSyncs
    /\ syncs' = syncs + 1
    /\ written' = <<>>
    /\ playlist_id' = None
    /\ idx' = NextCategory(0)
    /\ UNCHANGED <<remote, listing, nCreated, all_buckets, pl_config,
                   lastResolve, lastWrite, maxRequest>>
    /\ LET info == IF has_created_info THEN session_info ELSE <<>>
       IN  IF NextCategory(0) = 0
           THEN Complete(info, TRUE)
           ELSE /\ sync_pc' = "resolve"
                /\ created_info' = info
                /\ UNCHANGED <<session_info, has_created_info,
                               playlists_created, snapshots>>

\* what get_or_create_playlist saw and did
Resolved(name, known_id, reach, playlists, create, id) ==
    lastResolve' = [name |-> name, known_id |-> known_id, reach |-> reach,
                    playlists |-> playlists, create |-> create,
                    returned |-> id]

\* get_or_create_playlist returns an id without creating
ResolveExisting ==
    /\ UNCHANGED <<classifyVars, buildVars, mapping_file>>
    /\ sync_pc = "resolve"
    /\ LET name     == all_buckets[idx].name
           known_id == pl_config[name]
       IN  \E reach \in BOOLEAN :
             /\ reach => known_id \in DOMAIN remote
             /\ LET id == ExistingId(known_id, reach, Playlists, name)
                IN  /\ id # None
                    /\ playlist_id' = id
                    /\ Resolved(name, known_id, reach,
                                IF known_id # None /\ reach THEN <<>>
                                ELSE Playlists, FALSE, id)
    /\ sync_pc' = "write"
    /\ UNCHANGED <<remote, listing, nCreated, all_buckets, pl_config,
                   has_created_info, session_info, playlists_created, idx,
                   created_info, syncs, lastWrite, maxRequest, written,
                   snapshots>>

\* get_or_create_playlist finds nothing and posts the creation; the service
\* accepts it (200/201) or not, and then the function raises Exception
ResolveCreate ==
    /\ UNCHANGED <<classifyVars, buildVars, mapping_file>>
    /\ sync_pc = "resolve"
    /\ LET name     == all_buckets[idx].name
           known_id == pl_config[name]
       IN  \E reach \in BOOLEAN, status \in Statuses :
             /\ reach => known_id \in DOMAIN remote
             /\ ExistingId(known_id, reach, Playlists, name) = None
             /\ IF OkStatus(status)
                THEN /\ remote' = remote @@ (NewId :> Playlist(name, <<>>, TRUE))
                     /\ listing' = Append(listing, NewId)
                     /\ nCreated' = nCreated + 1
                     /\ playlist_id' = NewId
                     /\ sync_pc' = "write"
                     /\ Resolved(name, known_id, reach, Playlists, TRUE, NewId)
                ELSE /\ sync_pc' = "raised"
                     /\ Resolved(name, known_id, reach, Playlists, TRUE, None)
                     /\ UNCHANGED <<remote, listing, nCreated, playlist_id>>
    /\ UNCHANGED <<all_buckets, pl_config, has_created_info, session_info,
                   playlists_created, idx, created_info, syncs, lastWrite,
                   maxRequest, written, snapshots>>

\* get_all_user_playlists raises SpotifyException inside
\* get_or_create_playlist: create_playlists catches it.  On 403 it reports
\* the error and goes on to the lines after the try block; otherwise it
\* ends the script run with st.stop().
ResolveListingFails ==
    /\ UNCHANGED <<classifyVars, buildVars, mapping_file>>
    /\ sync_pc = "resolve"
    /\ LET name     == all_buckets[idx].name
           known_id == pl_config[name]
       IN  \E http_status \in {"403", "500"} :
             /\ Resolved(name, known_id, FALSE, <<>>, FALSE, None)
             /\ UNCHANGED <<remote, listing, nCreated, playlist_id, written>>
             /\ IF http_status = "403"
                THEN Complete(created_info, FALSE)
                ELSE /\ sync_pc' = "stopped"
                     /\ UNCHANGED <<has_created_info, session_info,
                                    playlists_created, created_info,
                                    snapshots>>
    /\ UNCHANGED <<all_buckets, pl_config, idx, syncs, lastWrite, maxRequest>>

\* if not any(x["Playlist"] == name for x in created_info): append
Reported(info, name, bucket) ==
    IF \E i \in 1..Len(info) : info[i].Playlist = name THEN info
    ELSE Append(info, [Playlist |-> name, Brani |-> Len(bucket)])

\* add_tracks_to_playlist(sp, playlist_id, uris), the report entry, and the
\* loop's step to the next non-empty bucket or to the end of the function
WriteBucket ==
    /\ UNCHANGED <<classifyVars, buildVars, mapping_file>>
    /\ sync_pc = "write"
    /\ LET name   == all_buckets[idx].name
           bucket == all_buckets[idx].bucket
           uris   == bucket
           old    == remote[playlist_id].tracks
           canOk  == remote[playlist_id].writable
       IN  \E token \in BOOLEAN, clear \in WriteStatuses(remote[playlist_id]),
              posted \in 0..Len(Payloads(uris)) :
             /\ posted > 0 => canOk
             /\ LET r == add_tracks(old, uris, token, clear, posted)
                IN  /\ remote' = [remote EXCEPT ![playlist_id].tracks = r.tracks]
                    /\ maxRequest' = Max(maxRequest, r.largest)
                    /\ lastWrite' = [id |-> playlist_id, uris |-> uris,
                                     before |-> old, clear |-> clear,
                                     returned |-> ~r.raised]
                    /\ IF r.raised
                       THEN /\ sync_pc' = "raised"
                            /\ UNCHANGED <<has_created_info, session_info,
                                           playlists_created, idx,
                                           created_info, written, snapshots>>
                       ELSE /\ written' = (name :> playlist_id) @@ written
                            /\ idx' = NextCategory(idx)
                            /\ IF NextCategory(idx) = 0
                               THEN Complete(Reported(created_info, name, bucket),
                                             TRUE)
                               ELSE /\ sync_pc' = "resolve"
                                    /\ Report(Reported(created_info, name, bucket))
                                    /\ UNCHANGED <<has_created_info,
                                                   playlists_created, snapshots>>
    /\ UNCHANGED <<listing, nCreated, all_buckets, pl_config, playlist_id,
                   syncs, lastResolve>>

\* "Logout / Reset Cache": st.session_state.clear(); the mapping is read
\* again from its file on the next run
Logout ==
    /\ UNCHANGED <<classifyVars, buildVars, mapping_file>>
    /\ sync_pc \in {"idle", "done", "stopped", "raised"}
    /\ has_created_info \/ playlists_created
    /\ has_created_info' = FALSE
    /\ session_info' = <<>>
    /\ playlists_created' = FALSE
    /\ sync_pc' = "idle"
    /\ UNCHANGED <<remote, listing, nCreated, all_buckets, pl_config, idx,
                   playlist_id, created_info, syncs, lastResolve, lastWrite,
                   maxRequest, written, snapshots>>

NextSync ==
    \/ SyncStart
    \/ ResolveExisting
    \/ ResolveCreate
    \/ ResolveListingFails
    \/ WriteBucket
    \/ Logout

SpecSync == InitSync /\ [][NextSync]_vars

-----------------------------------------------------------------------------
(* Properties of the reconciliation (SpecSync) *)

SyncOver == syncs > 0 /\ sync_pc \in {"done", "stopped", "raised"}

NonEmptyCategories ==
    {j \in 1..Len(all_buckets) : all_buckets[j].bucket # <<>>}

\* C1: two syncs of the same buckets that both return without raising leave
\* every category's remote collection with the same contents after the
\* second as after the first, whatever the statuses of the requests.
C1_SyncIdempotent ==
    Len(snapshots) >= 2 =>
        \A c \in DOMAIN snapshots[1] \cap DOMAIN snapshots[2] :
            snapshots[2][c] = snapshots[1][c]

\* C2: after add_tracks_to_playlist(playlist_id, uris) returned without
\* raising, the remote collection's membership is exactly uris, in order,
\* and no write request carried more than 100 items.
C2_ReplaceExact ==
    /\ lastWrite.returned => remote[lastWrite.id].tracks = lastWrite.uris
    /\ maxRequest <= 100

\* C3: when a sync is over, every non-empty category has been written or is
\* the one that failed: a failure on one category never leaves a later
\* non-empty category unprocessed.
C3_FailureDoesNotBlock ==
    SyncOver =>
        \A j \in NonEmptyCategories :
            all_buckets[j].name \in DOMAIN written \/ j = idx

\* C4: an override id is the write target only once it is known to be
\* writable, and a sync never fails on the forbidden status of an override:
\* the candidate is dropped and the bucket written elsewhere.
C4_ForbiddenOverrideFallsBack ==
    LET byOverride == /\ lastResolve.known_id # None
                      /\ lastResolve.reach
                      /\ lastResolve.returned = lastResolve.known_id
    IN  /\ (sync_pc = "write" /\ byOverride) => remote[playlist_id].writable
        /\ (sync_pc = "raised" /\ byOverride /\ lastWrite.id = playlist_id
                /\ lastResolve.name = all_buckets[idx].name)
              => remote[playlist_id].writable

\* C5: get_or_create_playlist resolves in strict order: the override id when
\* one is given and reachable; otherwise the first collection of the listing
\* whose name is exactly the category's; a creation request only when there
\* is neither, and the created collection bears the category's name.
C5_ResolveOrder ==
    LET r        == lastResolve
        override == r.known_id # None /\ r.reach
        named    == {i \in 1..Len(r.playlists) : r.playlists[i].name = r.name}
    IN  /\ r.create => ~override /\ named = {}
        /\ r.returned # None =>
              /\ override => r.returned = r.known_id
              /\ (~override /\ named # {}) =>
                    \E i \in named :
                        /\ r.returned = r.playlists[i].id
                        /\ \A j \in 1..(i - 1) : r.playlists[j].name # r.name
              /\ (~override /\ named = {}) =>
                    /\ r.create
                    /\ r.returned \notin {r.playlists[i].id :
                                              i \in 1..Len(r.playlists)}
                    /\ remote[r.returned].name = r.name

\* C5 witness: an override was given but unreachable, and of two listed
\* collections of the category's name the first was returned.
C5_Witness ==
    /\ lastResolve.known_id # None
    /\ ~lastResolve.reach
    /\ Len(lastResolve.playlists) = 2
    /\ lastResolve.returned = lastResolve.playlists[1].id
    /\ lastResolve.playlists[2].name = lastResolve.name

\* the names of the categories whose bucket is empty
EmptyNames ==
    {all_buckets[j].name : j \in {k \in 1..Len(all_buckets) :
                                     all_buckets[k].bucket = <<>>}}

\* C23: create_playlists takes the categories in the order of the bucket
\* map and does nothing remote for a category whose bucket is empty: no
\* lookup, no creation and no write; no collection of such a name is
\* created or changed.
C23_EmptySkipped ==
    /\ [](sync_pc \in {"resolve", "write"} => idx \in NonEmptyCategories)
    /\ [](lastResolve.name \notin EmptyNames)
    /\ [][\A id \in DOMAIN remote :
             remote[id].name \in EmptyNames => remote'[id] = remote[id]]_vars
    /\ [][\A id \in DOMAIN remote' \ DOMAIN remote :
             remote'[id].name \notin EmptyNames]_vars
    /\ [][(idx' # idx /\ idx' # 0) =>
             LET from == IF syncs' = syncs THEN idx ELSE 0
             IN  /\ idx' > from
                 /\ idx' \in NonEmptyCategories
                 /\ \A j \in (from + 1)..(idx' - 1) :
                       j \notin NonEmptyCategories]_vars

\* a sync returned that skipped the empty first category and wrote the
\* second, and the own collection of the first one's name is as it was
C23_Witness ==
    /\ sync_pc = "done"
    /\ all_buckets[1].bucket = <<>>
    /\ all_buckets[2].name \in DOMAIN written
    /\ \E id \in DOMAIN remote :
          /\ remote[id].name = all_buckets[1].name
          /\ remote[id].writable
          /\ remote[id].tracks = OldTracks

\* the entries of the report kept in the session for a category
EntriesFor(name) ==
    {i \in 1..Len(session_info) : session_info[i].Playlist = name}

\* C24: after a sync every non-empty category that was processed has an
\* entry in created_info that gives the id of its collection, the number
\* of items written in this sync, and the outcome (created, reused or
\* failed with a reason).
C24_ReportPerCategory ==
    sync_pc = "done" =>
        \A j \in NonEmptyCategories :
            (all_buckets[j].name \in DOMAIN written \/ j = idx) =>
                \E i \in EntriesFor(all_buckets[j].name) :
                    /\ session_info[i].Brani
                          = Len(SelectSeq(all_buckets[j].bucket, IsTrackUri))
                    /\ {"id", "outcome"} \subseteq DOMAIN session_info[i]

\* C27: a mapping file that does not parse is a fatal configuration error:
\* the pipeline does not go on to sync with the mapping taken as empty.
C27_MalformedIsFatal ==
    mapping_file = "malformed" => syncs = 0 /\ sync_pc = "idle"

-----------------------------------------------------------------------------
(* Texts: str.lower(), str.strip(), str.split(" ", 1), the "in" of strings *)

UpperCase == <<"A", "B", "C", "D", "E", "F", "G", "H", "I", "J", "K", "L", "M",
               "N", "O", "P", "Q", "R", "S", "T", "U", "V", "W", "X", "Y", "Z">>

LowerCase == <<"a", "b", "c", "d", "e", "f", "g", "h", "i", "j", "k", "l", "m",
               "n", "o", "p", "q", "r", "s", "t", "u", "v", "w", "x", "y", "z">>

LowerOf == [c \in {UpperCase[i] : i \in 1..Len(UpperCase)} |->
               LowerCase[CHOOSE i \in 1..Len(UpperCase) : UpperCase[i] = c]]

LowerChar(c) == IF c \in DOMAIN LowerOf THEN LowerOf[c] ELSE c

Lower(text) == [i \in 1..Len(text) |-> LowerChar(text[i])]

RECURSIVE LStrip(_)
LStrip(text) ==
    IF text # <<>> /\ Head(text) = " " THEN LStrip(Tail(text)) ELSE text

RECURSIVE RStrip(_)
RStrip(text) ==
    IF text # <<>> /\ text[Len(text)] = " "
    THEN RStrip(SubSeq(text, 1, Len(text) - 1)) ELSE text

Strip(text) == RStrip(LStrip(text))

HasSpace(text) == \E i \in 1..Len(text) : text[i] = " "

\* text.split(" ", 1)[-1], for a text that holds a space
AfterFirstSpace(text) ==
    LET first == CHOOSE i \in 1..Len(text) :
                    text[i] = " " /\ \A j \in 1..(i - 1) : text[j] # " "
    IN  SubSeq(text, first + 1, Len(text))

\* a in b, for strings
IsSubstring(a, b) ==
    \E k \in 0..(Len(b) - Len(a)) : SubSeq(b, k + 1, k + Len(a)) = a

-----------------------------------------------------------------------------
(* The configured vocabulary.  GENRE_PLAYLISTS is read from settings.json:  *)
(* the model's configuration has four categories, "To Review" among them   *)
(* as in the defaults, each a glyph token, a space and a text, two of them *)
(* sharing a word.                                                         *)

PopIta == <<"%", " ", "P", "o", "p", " ", "I", "T", "A">>
PopHits == <<"@", " ", "P", "o", "p", " ", "H", "i", "t", "s">>
GuitarAnthems == <<"#", " ", "G", "u", "i", "t", "a", "r">>

\* the literal of build_genre_buckets: "⚠️ To Review"
ToReview == <<"!", " ", "T", "o", " ", "R", "e", "v", "i", "e", "w">>

GENRE_PLAYLISTS == <<PopIta, PopHits, GuitarAnthems, ToReview>>

\* the literal of _classify_batch: "🌍 Pop & Radio Hits"
DefaultCategory == PopHits


\* JSON null (Python's None) and a JSON number, where a string is expected
Null == <<"null">>
Number == <<"number">>

-----------------------------------------------------------------------------
(* _fuzzy_match_category *)

Vocabulary == {GENRE_PLAYLISTS[i] : i \in 1..Len(GENRE_PLAYLISTS)}

\* v.split(" ", 1)[-1].lower() if " " in v else v.lower()
VText(v) == IF HasSpace(v) THEN Lower(AfterFirstSpace(v)) ELSE Lower(v)

\* v_text, for each v of the vocabulary
v_text == [v \in Vocabulary |-> VText(v)]

\* a test that every member passes
Matches_Always(candidate_lower, v) == TRUE

\* v_text in candidate_lower or candidate_lower in v_text
Matches(candidate_lower, v) ==
    IsSubstring(v_text[v], candidate_lower)
        \/ IsSubstring(candidate_lower, v_text[v])

\* for v in valid: ... return v; return None.  valid is a set: order is the
\* order in which this process iterates it.
_fuzzy_match_category(candidate, order) ==
    IF candidate = Null THEN Null
    ELSE LET candidate_lower == Strip(Lower(candidate))
             hits == {i \in 1..Len(order) : Matches(candidate_lower, order[i])}
         IN  IF hits = {} THEN Null
             ELSE order[CHOOSE i \in hits : \A j \in hits : i <= j]

-----------------------------------------------------------------------------
(* _classify_batch: normalisation and validation of a parsed response *)

\* A parsed response is [form, items]: form "list" (an array of objects),
\* "dict" (a flat object track -> categories) or "scalar" (any other JSON
\* value).  An item is [track, categories, is_object]; categories is
\* [kind, v] with kind "list" (v: the entries), "str" (v: one text),
\* "null", or "missing" (the object has no "categories" key).

\* no cut at all
Truncate_None(cats) == cats

\* cats[-4:]
Truncate_Last(cats) == SubSeq(cats, Max(1, Len(cats) - 3), Len(cats))

\* cats[:4]
Truncate(cats) == SubSeq(cats, 1, Min(4, Len(cats)))

\* the list-form loop body raises on an item that is no object (item.get)
\* and on "categories": null (None[:4])
ItemRaises(form, item) ==
    form = "list" /\ (~item.is_object \/ item.categories.kind = "null")

\* whether the item sets track_map[track], and to what
ItemSets(form, item) ==
    IF form = "list" THEN TRUE
    ELSE item.categories.kind \in {"str", "list"}

ItemCats(item) ==
    CASE item.categories.kind = "str"  -> <<item.categories.v>>
      [] item.categories.kind = "list" -> item.categories.v
      [] OTHER                         -> <<>>

RECURSIVE TrackMapFrom(_, _, _)
TrackMapFrom(form, items, track_map) ==
    IF items = <<>> THEN track_map
    ELSE LET item == Head(items)
         IN  TrackMapFrom(form, Tail(items),
                 IF ItemSets(form, item)
                 THEN (item.track :> Truncate(ItemCats(item))) @@ track_map
                 ELSE track_map)

\* track_map after the normalisation of a parsed response that did not raise
TrackMap(parsed) ==
    IF parsed.form = "scalar" THEN <<>>
    ELSE TrackMapFrom(parsed.form, parsed.items, <<>>)

NormaliseRaises(parsed) ==
    /\ parsed.form # "scalar"
    /\ \E k \in 1..Len(parsed.items) : ItemRaises(parsed.form, parsed.items[k])

\* track_map.get(label, [])
RawCats(track_map, label) ==
    IF label \in DOMAIN track_map THEN track_map[label] ELSE <<>>

\* a validation that keeps what it cannot match
ValidatedCat_Echo(cat, order) == <<cat>>

\* the body of "for cat in raw_cats" for one cat: what is appended
ValidatedCat(cat, order) ==
    IF cat \in Vocabulary THEN <<cat>>
    ELSE LET matched == _fuzzy_match_category(cat, order)
         IN  IF matched # Null THEN <<matched>> ELSE <<>>

RECURSIVE ValidatedCats(_, _)
ValidatedCats(raw_cats, order) ==
    IF raw_cats = <<>> THEN <<>>
    ELSE ValidatedCat(Head(raw_cats), order)
             \o ValidatedCats(Tail(raw_cats), order)

\* no default for an empty outcome
OrDefault_None(validated) == validated

\* if not validated: validated = ["🌍 Pop & Radio Hits"]
OrDefault(validated) ==
    IF validated = <<>> THEN <<DefaultCategory>> ELSE validated

LabelSet(labels) == {labels[k] : k \in 1..Len(labels)}

\* candidate.lower() raises on an entry that is no string
ValidationRaises(track_map, labels) ==
    \E label \in LabelSet(labels) :
        LET raw_cats == RawCats(track_map, label)
        IN  \E n \in 1..Len(raw_cats) : raw_cats[n] = Number

\* a result keyed by the tracks of the response, not by the labels asked
Validated_Returned(track_map, labels, order) ==
    [label \in DOMAIN track_map |->
        OrDefault(ValidatedCats(track_map[label], order))]

\* result, for a response that raised nowhere
Validated(track_map, labels, order) ==
    [label \in LabelSet(labels) |->
        OrDefault(ValidatedCats(RawCats(track_map, label), order))]

\* a fallback that files the labels for review
Fallback_ToReview(labels) == [label \in LabelSet(labels) |-> <<ToReview>>]

\* return {label: ["🌍 Pop & Radio Hits"] for label in labels}
Fallback(labels) == [label \in LabelSet(labels) |-> <<DefaultCategory>>]

\* whether the try block raises after json.loads returned
AttemptRaises(parsed, labels) ==
    NormaliseRaises(parsed) \/ ValidationRaises(TrackMap(parsed), labels)

-----------------------------------------------------------------------------
(* build_genre_buckets *)

\* ai_results.get(label, [])
Categories(ai_results, label) ==
    IF label \in DOMAIN ai_results THEN ai_results[label] ELSE <<>>

Listed(categories, cat) == \E n \in 1..Len(categories) : categories[n] = cat

\* a track goes to the categories listed for it, and to no other bucket
Appended_Listed(ts, ai_results, cat, k) ==
    /\ Listed(Categories(ai_results, ts[k].label), cat)
    /\ ~\E j \in 1..(k - 1) : ts[j] = ts[k]

\* whether the k-th track is appended to buckets[cat].  A track without
\* categories goes to "To Review" unconditionally; otherwise it goes to each
\* of its categories unless an equal track is already there, and an equal
\* track bears the same label, hence went to the same buckets.
Appended(ts, ai_results, cat, k) ==
    LET categories == Categories(ai_results, ts[k].label)
    IN  IF categories = <<>> THEN cat = ToReview
        ELSE /\ Listed(categories, cat)
             /\ ~\E j \in 1..(k - 1) : ts[j] = ts[k]

\* buckets for the configured names alone
BucketKeys_Static(ts, ai_results) == Vocabulary \cup {ToReview}

\* the buckets are created for GENRE_PLAYLISTS, for "To Review" and, on the
\* fly, for every category of ai_results that a track bears
BucketKeys(ts, ai_results) ==
    Vocabulary \cup {ToReview}
        \cup {cat \in UNION {LabelSet(Categories(ai_results, ts[k].label)) :
                                k \in 1..Len(ts)} : TRUE}

\* buckets of copies of the tracks, each tagged with the bucket it went to
build_genre_buckets_Tagged(ts, ai_results) ==
    [cat \in BucketKeys(ts, ai_results) |->
        LET Goes(k) == Appended(ts, ai_results, cat, k)
            ks      == SelectSeq([k \in 1..Len(ts) |-> k], Goes)
        IN  [m \in 1..Len(ks) |->
                [label |-> ts[ks[m]].label, track_id |-> ts[ks[m]].track_id,
                 genre |-> cat]]]

\* buckets[c].append(t): the buckets hold the tracks themselves
build_genre_buckets(ts, ai_results) ==
    [cat \in BucketKeys(ts, ai_results) |->
        LET Goes(k) == Appended(ts, ai_results, cat, k)
            ks      == SelectSeq([k \in 1..Len(ts) |-> k], Goes)
        IN  [m \in 1..Len(ks) |-> ts[ks[m]]]]

-----------------------------------------------------------------------------
(* classify_all_tracks and its caller: the inputs of the model *)

(* Bounds of the model *)

MaxBatches == 2
MaxRuns == 2
MaxResponseCats == 5

(* Program constants *)

BATCH_SIZE == 10
MAX_RETRIES == 5
RETRY_DELAY == 10

\* the literal of time.sleep(10) between batches
BatchSleep == 10

Labels == <<"A - X", "B - Y">>

\* n liked songs; every other one bears the same label
Tracks(n) == [k \in 1..n |->
                 [label |-> Labels[((k - 1) % Len(Labels)) + 1], track_id |-> k,
                  release_year |-> IF k = 2 THEN 0 ELSE 1998 + k]]

TrackCounts == {0, 1, BATCH_SIZE, (MaxBatches - 1) * BATCH_SIZE + 1}

Reverse(s) == [k \in 1..Len(s) |-> s[Len(s) + 1 - k]]

\* two of the orders in which a process may iterate set(GENRE_PLAYLISTS)
Orders == {GENRE_PLAYLISTS, Reverse(GENRE_PLAYLISTS)}

\* candidates the external classifier may return
Rock == <<"R", "o", "c", "k">>
Pop == <<"p", "o", "p">>
GuitarLoud == <<"G", "U", "I", "T", "A", "R", " ">>
PoPadded == <<" ", "P", "o", " ">>

\* n categories, all of the vocabulary
LongList(n) == [k \in 1..n |-> GENRE_PLAYLISTS[((k - 1) % Len(GENRE_PLAYLISTS)) + 1]]

ListShapes ==
    { <<>>, <<GuitarAnthems>>, <<Rock>>, <<Pop>>, <<<<>>>>, <<GuitarLoud, Rock, GuitarAnthems>>,
      <<Null, PopIta>>, <<Number>>, <<PoPadded, Rock>> }
        \cup {LongList(n) : n \in 4..MaxResponseCats}

Absent == [kind |-> "absent", v |-> <<>>]

\* what a response may hold for one label
Shapes ==
    {Absent, [kind |-> "missing", v |-> <<>>], [kind |-> "null", v |-> <<>>],
     [kind |-> "str", v |-> GuitarAnthems]}
        \cup {[kind |-> "list", v |-> l] : l \in ListShapes}

RECURSIVE Dedup(_)
Dedup(labels) ==
    IF labels = <<>> THEN <<>>
    ELSE LET rest == Dedup(SubSeq(labels, 1, Len(labels) - 1))
             last == labels[Len(labels)]
         IN  IF last \in LabelSet(rest) THEN rest ELSE Append(rest, last)

Item(track, categories) ==
    [track |-> track, categories |-> categories, is_object |-> TRUE]

\* the items of a response that holds f[label] for each label it holds
ItemsOf(labels, f) ==
    LET all  == [k \in 1..Len(labels) |-> Item(labels[k], f[labels[k]])]
        Held(item) == item.categories # Absent
    IN  SelectSeq(all, Held)

\* an item for a track that was not asked about, and one that is no object
Stray == Item("Z - Q", [kind |-> "list", v |-> <<GuitarAnthems>>])
NoObject == [track |-> "", categories |-> Absent, is_object |-> FALSE]

\* the shapes that an item for a track not asked about comes along with
StrayShapes == {Absent, [kind |-> "str", v |-> GuitarAnthems]}

\* the parsed responses the external classifier may give for a batch: one
\* shape for all its labels, as an array or as a flat object
Responses(labels) ==
    LET asked == Dedup(labels)
        Of(shape) == ItemsOf(asked, [l \in LabelSet(labels) |-> shape])
        held  == {Of(shape) : shape \in Shapes}
    IN  {[form |-> "list", items |-> items \o extra] :
            items \in held, extra \in {<<>>, <<NoObject>>}}
        \cup {[form |-> "list", items |-> Of(shape) \o <<Stray>>] :
                shape \in StrayShapes}
        \cup {[form |-> "dict", items |-> items] :
                items \in {h \in held :
                    \A k \in 1..Len(h) : h[k].categories.kind # "missing"}}
        \cup {[form |-> "scalar", items |-> <<>>]}

-----------------------------------------------------------------------------
(* classifier.py: classify_by_year, build_year_buckets, build_genre_buckets *)

MaxItems == 2

\* datetime.now().year when the module was imported
ThisYear == 2026

Oggi == <<"2", "0", "2", "0", " ", "-", " ", "O", "g", "g", "i">>
Dieci == <<"2", "0", "1", "0", " ", "-", " ", "2", "0", "1", "9">>
Zero == <<"2", "0", "0", "0", " ", "-", " ", "2", "0", "0", "9">>
Pre2000 == <<"P", "r", "e", "-", "2", "0", "0", "0">>

Entry(name, start, end) == [name |-> name, start |-> start, end |-> end]

DEFAULT_YEAR_PLAYLISTS ==
    << Entry(Oggi, 2020, ThisYear), Entry(Dieci, 2010, 2019),
       Entry(Zero, 2000, 2009), Entry(Pre2000, 0, 1999) >>

\* the tables settings.json can hold: the default one, one whose intervals
\* overlap and reach below 0, one with a gap and an interval whose start is
\* after its end, and the empty one
YearTables ==
    { DEFAULT_YEAR_PLAYLISTS,
      << Entry(Pre2000, -1, 2009), Entry(Zero, 2000, 2009),
         Entry(Oggi, 2005, ThisYear) >>,
      << Entry(Dieci, 2019, 2010), Entry(Oggi, 2020, 2020) >>,
      <<>> }

\* the release years fetch_all_liked_songs can store (0 when the date is
\* missing), and those another producer of items can
Years == {-1, 0, 1, 1999, 2000, 2005, 2009, 2010, 2019, 2020, ThisYear,
          ThisYear + 1}

WithYear(label, track_id, year) ==
    [label |-> label, track_id |-> track_id, release_year |-> year]

\* the items classify_by_year is called with; the last has no release_year
YearItems ==
    {WithYear(Labels[1], 1, y) : y \in Years}
        \cup {[label |-> Labels[1], track_id |-> 1]}

\* the items of a build: two with the same label, one without release_year
BuildItems ==
    { WithYear(Labels[1], 1, 2005), WithYear(Labels[2], 2, 1999),
      WithYear(Labels[1], 3, 0), [label |-> Labels[2], track_id |-> 4] }

\* the sequences of at most MaxItems items, the same item twice included
ItemSeqs == UNION {[1..n -> BuildItems] : n \in 0..MaxItems}

\* the category lists of an AI result map: repeated, unknown, fallback, empty
AiLists == { <<PopHits, PopHits>>, <<Rock, PopHits>>, <<ToReview>>, <<>> }

\* the AI result maps: every label may have no entry
AiMaps == UNION {[S -> AiLists] : S \in SUBSET LabelSet(Labels)}

\* d.get(key, default)
Get(d, key, default) == IF key \in DOMAIN d THEN d[key] ELSE default

\* a guard that lets the year 0 through
InvalidYear_Negative(year) == year < 0

\* if year <= 0: return None
InvalidYear(year) == year <= 0

\* an interval without its end
Contains_HalfOpen(entry, year) == entry.start <= year /\ year < entry.end

\* start <= year <= end
Contains(entry, year) == entry.start <= year /\ year <= entry.end

\* a fallback name in place of None
Unmatched_ToReview == ToReview

\* the return None after the loop
Unmatched == None

classify_by_year(track) ==
    LET year == Get(track, "release_year", 0)
        hits == {n \in 1..Len(YEAR_PLAYLISTS) :
                    Contains(YEAR_PLAYLISTS[n], year)}
    IN  IF InvalidYear(year) THEN None
        ELSE IF hits = {} THEN Unmatched
        ELSE YEAR_PLAYLISTS[CHOOSE n \in hits : \A m \in hits : n <= m].name

YearKeys == {YEAR_PLAYLISTS[n].name : n \in 1..Len(YEAR_PLAYLISTS)}

\* every track in every bucket of the table
build_year_buckets_Every(ts) == [p_name \in YearKeys |-> ts]

\* buckets for the keys of the table; every track whose classify_by_year is
\* a name is appended to that bucket (created if missing), in input order
build_year_buckets(ts) ==
    LET named == {classify_by_year(ts[k]) : k \in 1..Len(ts)} \ {None}
    IN  [p_name \in YearKeys \cup named |->
            LET Goes(k) == classify_by_year(ts[k]) = p_name
                ks      == SelectSeq([k \in 1..Len(ts) |-> k], Goes)
            IN  [m \in 1..Len(ks) |-> ts[ks[m]]]]

-----------------------------------------------------------------------------
(* classify_all_tracks driven by _show_ai_interface *)

\* the synchronisation half while nothing is synchronised
SyncIdle ==
    /\ remote = <<>>
    /\ listing = <<>>
    /\ nCreated = 0
    /\ all_buckets = <<>>
    /\ mapping_file = "absent"
    /\ pl_config = <<>>
    /\ has_created_info = FALSE
    /\ session_info = <<>>
    /\ playlists_created = FALSE
    /\ sync_pc = "idle"
    /\ idx = 0
    /\ playlist_id = None
    /\ created_info = <<>>
    /\ syncs = 0
    /\ lastResolve = NoResolve
    /\ lastWrite = NoWrite
    /\ maxRequest = 0
    /\ written = <<>>
    /\ snapshots = <<>>

InitClassify ==
    /\ SyncIdle
    /\ tracks \in {Tracks(n) : n \in TrackCounts}
    /\ valid_order \in Orders
    /\ ClassifyIdle
    /\ YEAR_PLAYLISTS = DEFAULT_YEAR_PLAYLISTS
    /\ build_pc = "idle"
    /\ year_calls = <<>>
    /\ build_in = <<>>
    /\ year_buckets = build_year_buckets(tracks)
    /\ genre_out = <<>>

\* labels = [t["label"] for t in tracks]
TrackLabels == [k \in 1..Len(tracks) |-> tracks[k].label]

\* a slice that stops one label early
Slice_Short(labels, i, size) ==
    SubSeq(labels, i + 1, Min(i + size - 1, Len(labels)))

\* labels[i : i + size]
Slice(labels, i, size) == SubSeq(labels, i + 1, Min(i + size, Len(labels)))

\* batch = labels[i : i + BATCH_SIZE]
Batch(i) == Slice(TrackLabels, i, BATCH_SIZE)

\* range(0, n, size)
Starts(n, size) == [k \in 1..((n + size - 1) \div size) |-> (k - 1) * size]

\* the batches of the for loop over range(0, len(labels), size), in order
Batches(labels, size) ==
    [k \in 1..Len(Starts(Len(labels), size)) |->
        Slice(labels, Starts(Len(labels), size)[k], size)]

\* total_batches = (len(labels) + BATCH_SIZE - 1) // BATCH_SIZE
total_batches == (Len(tracks) + BATCH_SIZE - 1) \div BATCH_SIZE

\* a batch number counted from zero
batch_num_FromZero(i) == i \div BATCH_SIZE

\* batch_num = i // BATCH_SIZE + 1
batch_num(i) == i \div BATCH_SIZE + 1

\* d.update(other)
Update(d, other) == other @@ d

\* a backoff that does not grow
RetryDelay_Fixed(n) == RETRY_DELAY

\* time.sleep(RETRY_DELAY * attempt)
RetryDelay(n) == RETRY_DELAY * n

NothingSeen == [unknown |-> FALSE, longest |-> 0, raw |-> <<>>]

\* a sleep after the first pair of batches only
Pause_AfterFirst(i) ==
    IF i > 0 /\ i + BATCH_SIZE < Len(tracks) THEN <<BatchSleep>> ELSE <<>>

\* if i + BATCH_SIZE < len(labels): time.sleep(10)
Pause(i) == IF i + BATCH_SIZE < Len(tracks) THEN <<BatchSleep>> ELSE <<>>

\* _classify_batch is entered for the batch at i
EnterBatch(i) ==
    /\ gen_pc' = "attempt"
    /\ offset' = i
    /\ attempt' = 1
    /\ calls' = 0
    /\ delays' = <<>>
    /\ parsedAt' = 0
    /\ returnedAt' = 0
    /\ seen' = NothingSeen
    /\ dispatched' = Append(IF i = 0 THEN <<>> ELSE dispatched, Batch(i))

\* the for loop of _show_ai_interface ended without an exception: the flag
\* is cleared, the script reruns and builds the buckets from what it has
Finish ==
    /\ gen_pc' = "idle"
    /\ is_running' = FALSE
    /\ genre_buckets' = IF classifications # <<>>
                        THEN build_genre_buckets(tracks, classifications)
                        ELSE genre_buckets

\* "Avvia": is_running is set, the script reruns and pulls the generator
StartClassify ==
    /\ UNCHANGED <<syncVars, buildVars>>
    /\ gen_pc = "idle"
    /\ ~is_running
    /\ runs < MaxRuns
    /\ runs' = runs + 1
    /\ steps' = <<>>
    /\ handed' = <<>>
    /\ kept' = <<>>
    /\ stopped' = FALSE
    /\ pauses' = <<>>
    /\ IF Len(tracks) > 0
       THEN /\ EnterBatch(0)
            /\ is_running' = TRUE
            /\ UNCHANGED genre_buckets
       ELSE /\ Finish
            /\ dispatched' = <<>>
            /\ UNCHANGED <<offset, attempt, calls, delays, parsedAt,
                           returnedAt, seen>>
    /\ UNCHANGED <<tracks, valid_order, classifications, batch_result>>

\* _classify_batch returns result: the generator yields it
\* the attempt counter and the record of what was parsed end with the call
Yield(result) ==
    /\ batch_result' = result
    /\ gen_pc' = "yielded"
    /\ attempt' = 0
    /\ parsedAt' = 0
    /\ steps' = Append(steps, [batch_num     |-> batch_num(offset),
                               total_batches |-> total_batches])
    /\ handed' = Update(handed, result)

\* a loop with one attempt more
MoreAttempts_OneMore(n) == n <= MAX_RETRIES

\* for attempt in range(1, MAX_RETRIES + 1): another attempt follows n
MoreAttempts(n) == n < MAX_RETRIES

\* the except clauses and what follows them in the loop body
AttemptFailed(first_parsed) ==
    IF MoreAttempts(attempt)
    THEN /\ delays' = Append(delays, RetryDelay(attempt))
         /\ attempt' = attempt + 1
         /\ parsedAt' = first_parsed
         /\ UNCHANGED <<gen_pc, batch_result, steps, handed>>
    ELSE /\ Yield(Fallback(Batch(offset)))
         /\ UNCHANGED delays

Called == calls' = calls + 1

\* generate_content raises, or json.loads does
CallFails ==
    /\ UNCHANGED <<syncVars, buildVars, pauses>>
    /\ gen_pc = "attempt"
    /\ Called
    /\ AttemptFailed(parsedAt)
    /\ UNCHANGED <<tracks, valid_order, is_running, classifications,
                   genre_buckets, offset, runs, returnedAt, seen, dispatched,
                   kept, stopped>>

\* json.loads returns, the normalisation or the validation raises
CallMalformed ==
    /\ UNCHANGED <<syncVars, buildVars, pauses>>
    /\ gen_pc = "attempt"
    /\ {parsed \in Responses(Batch(offset)) :
           AttemptRaises(parsed, Batch(offset))} # {}
    /\ Called
    /\ AttemptFailed(IF parsedAt = 0 THEN attempt ELSE parsedAt)
    /\ UNCHANGED <<tracks, valid_order, is_running, classifications,
                   genre_buckets, offset, runs, returnedAt, seen, dispatched,
                   kept, stopped>>

\* the list a response held for each track it set an entry for, asked
\* about or not, as the external classifier gave it (the last item wins)
Returned(parsed) ==
    LET Sets(k) == ItemSets(parsed.form, parsed.items[k])
        setting == {k \in 1..Len(parsed.items) : Sets(k)}
        Last(l) == CHOOSE k \in setting :
                      /\ parsed.items[k].track = l
                      /\ \A j \in setting :
                            parsed.items[j].track = l => j <= k
    IN  [l \in {parsed.items[k].track : k \in setting} |->
            ItemCats(parsed.items[Last(l)])]

\* what a response held for the labels of the batch: a category that
\* matches nothing, the length of its longest list, and the lists
Seen(parsed, labels) ==
    LET track_map == TrackMap(parsed)
        lengths   == {0} \cup {Len(ItemCats(parsed.items[k])) :
                         k \in {j \in 1..Len(parsed.items) :
                                   parsed.items[j].track \in LabelSet(labels)}}
    IN  [unknown |-> \E l \in LabelSet(labels) :
                        \E n \in 1..Len(RawCats(track_map, l)) :
                           ValidatedCat(RawCats(track_map, l)[n], valid_order) = <<>>,
         longest |-> CHOOSE n \in lengths : \A m \in lengths : m <= n,
         raw     |-> Returned(parsed)]

\* json.loads returns and the attempt reaches "return result"
CallReturns ==
    /\ UNCHANGED <<syncVars, buildVars, pauses>>
    /\ gen_pc = "attempt"
    /\ \E parsed \in Responses(Batch(offset)) :
          /\ ~AttemptRaises(parsed, Batch(offset))
          /\ Yield(Validated(TrackMap(parsed), Batch(offset), valid_order))
          /\ seen' = Seen(parsed, Batch(offset))
    /\ Called
    /\ returnedAt' = attempt
    /\ UNCHANGED <<tracks, valid_order, is_running, classifications,
                   genre_buckets, offset, runs, delays, dispatched, kept,
                   stopped>>

\* the body of the caller's for loop: classifications.update(batch_result);
\* the yielded value and what was observed of its batch end here
ConsumeStep ==
    /\ UNCHANGED <<syncVars, buildVars, pauses>>
    /\ gen_pc = "yielded"
    /\ classifications' = Update(classifications, batch_result)
    /\ kept' = Update(kept, batch_result)
    /\ gen_pc' = "pull"
    /\ batch_result' = <<>>
    /\ calls' = 0
    /\ delays' = <<>>
    /\ parsedAt' = 0
    /\ returnedAt' = 0
    /\ seen' = NothingSeen
    /\ UNCHANGED <<tracks, valid_order, is_running, genre_buckets, offset,
                   attempt, runs, dispatched, steps, handed, stopped>>

\* the generator is resumed: the next batch, or the end of the loop
Resume ==
    /\ UNCHANGED <<syncVars, buildVars>>
    /\ gen_pc = "pull"
    /\ pauses' = pauses \o Pause(offset)
    /\ IF offset + BATCH_SIZE < Len(tracks)
       THEN /\ EnterBatch(offset + BATCH_SIZE)
            /\ UNCHANGED <<is_running, genre_buckets>>
       ELSE /\ Finish
            /\ UNCHANGED <<offset, attempt, calls, delays, parsedAt,
                           returnedAt, seen, dispatched>>
    /\ UNCHANGED <<tracks, valid_order, classifications, batch_result, runs,
                   steps, handed, kept, stopped>>

\* the generator, once its caller is gone, is never resumed
Abandoned == "idle"

\* The caller stops consuming.  The script run that holds the generator ends
\* at a step it was handed: before the body has merged it (the calls that
\* update the page come first in the body, and what ends the run there
\* leaves the step unmerged) or after the body.  The run that follows finds
\* the flag cleared ("Interrompi"), does not enter the loop and builds the
\* buckets from the classifications it has.
StopConsuming ==
    /\ UNCHANGED <<syncVars, buildVars, pauses>>
    /\ gen_pc \in {"yielded", "pull"}
    /\ is_running
    /\ gen_pc' = Abandoned
    /\ is_running' = FALSE
    /\ stopped' = TRUE
    /\ batch_result' = <<>>
    /\ calls' = 0
    /\ delays' = <<>>
    /\ returnedAt' = 0
    /\ seen' = NothingSeen
    /\ genre_buckets' = IF classifications # <<>>
                        THEN build_genre_buckets(tracks, classifications)
                        ELSE genre_buckets
    /\ UNCHANGED <<tracks, valid_order, classifications, offset, attempt,
                   runs, parsedAt, dispatched, steps, handed, kept>>

\* "Logout / Reset Cache": st.session_state.clear() and a rerun.  The whole
\* session goes, the classifications with it: they are kept nowhere else, no
\* file holds them.  The liked songs are fetched again for the new session.
ResetCache ==
    /\ UNCHANGED <<syncVars, buildVars>>
    /\ gen_pc = "idle"
    /\ ~is_running
    /\ classifications # <<>>
    /\ classifications' = <<>>
    /\ genre_buckets' = <<>>
    /\ UNCHANGED <<tracks, valid_order, is_running, gen_pc, offset, attempt,
                   batch_result, runs, calls, delays, parsedAt, returnedAt,
                   seen, dispatched, steps, handed, kept, stopped, pauses>>

NextClassify ==
    \/ StartClassify
    \/ CallFails
    \/ CallMalformed
    \/ CallReturns
    \/ ConsumeStep
    \/ Resume
    \/ StopConsuming
    \/ ResetCache

SpecClassify == InitClassify /\ [][NextClassify]_vars

-----------------------------------------------------------------------------
(* Properties of the classification *)

\* the category lists in sight: those just yielded and those stored
CategoryLists ==
    {batch_result[l] : l \in DOMAIN batch_result}
        \cup {classifications[l] : l \in DOMAIN classifications}

Yielded == gen_pc = "yielded"

\* C6: a second run of classify_all_tracks over the same tracks, after a
\* first run that completed, calls the external classifier not once and
\* leaves the classification of every label as it was.
C6_IdempotentResume ==
    /\ [](runs >= 2 => calls = 0)
    /\ [][runs' >= 2 => classifications' = classifications]_vars

\* C7: every category list that _classify_batch returns is non-empty,
\* whatever the external classifier answered or failed to answer.
C7_NeverEmpty ==
    /\ Yielded => DOMAIN batch_result = LabelSet(Batch(offset))
    /\ \A cats \in CategoryLists : cats # <<>>

\* the response held no list, or an empty one, for the labels of the batch,
\* and they received the default
C7_Witness ==
    /\ Yielded
    /\ returnedAt # 0
    /\ seen.longest = 0
    /\ \A l \in LabelSet(Batch(offset)) : batch_result[l] = <<DefaultCategory>>

\* C8: every returned category is a member of GENRE_PLAYLISTS or the
\* default; a string that is no member ("Rock") is in no batch result and is
\* no key of the buckets built from the results.
C8_OnlyVocabulary ==
    /\ \A cats \in CategoryLists :
          \A n \in 1..Len(cats) : cats[n] \in Vocabulary \cup {DefaultCategory}
    /\ DOMAIN genre_buckets \subseteq Vocabulary \cup {ToReview, DefaultCategory}
    /\ Rock \notin DOMAIN genre_buckets

\* the response held "Rock" alone for the labels of the batch
C8_Witness ==
    /\ Yielded
    /\ returnedAt # 0
    /\ seen.unknown
    /\ seen.longest = 1

\* C9 as stated: every returned category list has 1 or 2 entries.
C9_AtMostTwo ==
    \A cats \in CategoryLists : Len(cats) \in 1..2

\* C9: every returned category list has between 1 and 4 entries: the
\* response's list is cut to its first four entries before validation.
C9_AtMostFour ==
    \A cats \in CategoryLists : Len(cats) \in 1..4

\* the response held more than four categories and four were returned
C9_Witness ==
    /\ Yielded
    /\ seen.longest > 4
    /\ \E l \in DOMAIN batch_result : Len(batch_result[l]) = 4

\* the backoff: the k-th sleep lasts RETRY_DELAY * k, so the sleeps grow
LinearBackoff ==
    /\ \A k \in 1..Len(delays) : delays[k] = RETRY_DELAY * k
    /\ \A k \in 1..(Len(delays) - 1) : delays[k] < delays[k + 1]

\* C10 as stated: at most MAX_RETRIES calls for a batch, none after the
\* first attempt whose response json.loads accepted, and a linear backoff.
C10_NoCallAfterParsed ==
    /\ calls <= MAX_RETRIES
    /\ parsedAt # 0 => calls = parsedAt
    /\ LinearBackoff

\* C10: at most MAX_RETRIES calls for a batch, none after the attempt that
\* returned a result, one sleep after each failed attempt but the last, and
\* a linear backoff.
C10_RetryDiscipline ==
    /\ calls <= MAX_RETRIES
    /\ returnedAt # 0 => calls = returnedAt
    /\ gen_pc = "attempt" => Len(delays) = calls /\ attempt = calls + 1
    /\ Yielded => Len(delays) = calls - 1
    /\ LinearBackoff

\* a response was parsed and then rejected, and every retry was used
C10_Witness ==
    /\ gen_pc = "attempt"
    /\ parsedAt # 0
    /\ calls > parsedAt
    /\ Len(delays) = MAX_RETRIES - 1

\* every attempt of the batch failed: MAX_RETRIES calls, none returned
Exhausted == Yielded /\ returnedAt = 0

\* C11: when every attempt of a batch fails, _classify_batch returns (it
\* raises nothing) a result that gives every label of the batch the default
\* category alone, the run goes on, and classify_all_tracks enters the next
\* batch when it is resumed.
C11_FallbackOnExhaustion ==
    /\ [](Exhausted =>
            /\ calls = MAX_RETRIES
            /\ is_running
            /\ DOMAIN batch_result = LabelSet(Batch(offset))
            /\ \A l \in DOMAIN batch_result :
                  batch_result[l] = <<DefaultCategory>>)
    /\ [][gen_pc = "pull" /\ gen_pc' # "pull" /\ ~stopped'
             /\ offset + BATCH_SIZE < Len(tracks)
          => /\ gen_pc' = "attempt"
             /\ offset' = offset + BATCH_SIZE]_vars

\* a first batch exhausted its attempts, and a second batch remains
C11_Witness ==
    /\ Exhausted
    /\ offset = 0
    /\ offset + BATCH_SIZE < Len(tracks)

\* the run ended because its loop ended
Completed == gen_pc = "idle" /\ runs > 0 /\ ~stopped

\* the labels a batch of the run must hold: the k-th BATCH_SIZE labels of
\* the tracks, in their order
ExpectedBatch(k) ==
    [j \in 1..Min(BATCH_SIZE, Len(tracks) - (k - 1) * BATCH_SIZE) |->
        tracks[(k - 1) * BATCH_SIZE + j].label]

\* C12: the batches are the consecutive runs of BATCH_SIZE labels in source
\* order, only the last may be shorter; they are dispatched in that order,
\* one step is yielded after each, and a completed run has dispatched every
\* label.  With 3 labels and size 2: the first two, then the third.
C12_BatchesInOrder ==
    /\ \A k \in 1..Len(dispatched) : dispatched[k] = ExpectedBatch(k)
    /\ \A k \in 1..(Len(dispatched) - 1) : Len(dispatched[k]) = BATCH_SIZE
    /\ \A k \in 1..Len(dispatched) : Len(dispatched[k]) \in 1..BATCH_SIZE
    /\ Len(steps) = Len(dispatched) - (IF gen_pc = "attempt" THEN 1 ELSE 0)
    /\ Completed =>
          (Len(dispatched) - 1) * BATCH_SIZE < Len(tracks)
              /\ Len(tracks) <= Len(dispatched) * BATCH_SIZE
    /\ Batches(<<"A - X", "B - Y", "C - Z">>, 2)
          = << <<"A - X", "B - Y">>, <<"C - Z">> >>

\* a run of two batches, the second one shorter, has completed
C12_Witness ==
    /\ Completed
    /\ Len(dispatched) = 2
    /\ Len(dispatched[1]) = BATCH_SIZE
    /\ Len(dispatched[2]) < BATCH_SIZE
    /\ Len(steps) = 2

\* the labels classified up to and including the k-th batch of the run
LabelsUpTo(k) == Min(k * BATCH_SIZE, Len(tracks))

\* C13 as stated: the k-th step reports the number of labels classified so
\* far and the number of labels to classify; the first grows from step to
\* step and reaches the second at the last step.
C13_CountsLabels ==
    /\ \A k \in 1..Len(steps) :
          /\ steps[k].batch_num = LabelsUpTo(k)
          /\ steps[k].total_batches = Len(tracks)
    /\ \A k \in 1..(Len(steps) - 1) : steps[k].batch_num < steps[k + 1].batch_num
    /\ Completed /\ steps # <<>> =>
          steps[Len(steps)].batch_num = steps[Len(steps)].total_batches

\* C13: the k-th step reports k, the number of the batch, and the number of
\* batches of the run, (len(labels) + BATCH_SIZE - 1) // BATCH_SIZE; the
\* first grows by one from step to step and reaches the second at the last
\* step of a completed run.
C13_CountsBatches ==
    /\ \A k \in 1..Len(steps) :
          /\ steps[k].batch_num = k
          /\ steps[k].total_batches * BATCH_SIZE >= Len(tracks)
          /\ (steps[k].total_batches - 1) * BATCH_SIZE < Len(tracks)
    /\ \A k \in 1..(Len(steps) - 1) : steps[k].batch_num < steps[k + 1].batch_num
    /\ Completed /\ steps # <<>> =>
          steps[Len(steps)].batch_num = steps[Len(steps)].total_batches

\* a completed run of two steps over more labels than batches
C13_Witness ==
    /\ Completed
    /\ Len(steps) = 2
    /\ steps[2].batch_num = 2
    /\ steps[2].total_batches = 2
    /\ Len(tracks) > 2

\* the store holds, for every label of f, what f holds for it
Retains(f) ==
    \A l \in DOMAIN f : l \in DOMAIN classifications /\ classifications[l] = f[l]

\* once the caller has stopped, the classifier is not called; it is called
\* only for the one batch the running caller has asked for, and a batch is
\* entered only when the step before it has been consumed
NoCallUnasked ==
    /\ [](stopped => calls = 0 /\ gen_pc = "idle" /\ ~is_running)
    /\ [][calls' > calls =>
             gen_pc = "attempt" /\ is_running /\ ~stopped]_vars
    /\ [][Len(dispatched') > Len(dispatched) \/ dispatched' # dispatched =>
             gen_pc \in {"idle", "pull"} /\ gen_pc' = "attempt"]_vars
    /\ [][stopped' => Len(dispatched') <= Len(steps')]_vars

\* C14: after the caller stops at the step of batch k, no batch
\* after k is called for, the results of every step handed to the caller
\* are retained, and calls are made only on request, one batch at a time.
C14_HandedRetained ==
    /\ NoCallUnasked
    /\ [](stopped => Retains(handed))

\* C15: once a batch's step has been yielded and the caller has taken it
\* (the generator is no longer suspended at the yield), the store
\* (st.session_state["classifications"]) holds the results of that batch
\* and of every earlier batch of the run, also after an interruption of the
\* run; entries are added or overwritten, never removed.
C15_StoreGrows ==
    /\ [](gen_pc # "yielded" => Retains(handed))
    /\ [](Retains(kept))
    /\ [][\A l \in DOMAIN classifications : l \in DOMAIN classifications']_vars

-----------------------------------------------------------------------------
(* classifier.py: the functions applied to drawn inputs *)

InitBuild ==
    /\ SyncIdle
    /\ tracks = <<>>
    /\ valid_order = <<>>
    /\ ClassifyIdle
    /\ YEAR_PLAYLISTS \in YearTables
    /\ build_pc = "idle"
    /\ year_calls = <<>>
    /\ build_in = <<>>
    /\ year_buckets = <<>>
    /\ genre_out = <<>>

\* one call of classify_by_year
ClassifyByYear ==
    /\ build_pc \in {"idle", "called"}
    /\ \E track \in YearItems :
          LET call == [track |-> track, returned |-> classify_by_year(track)]
          IN  year_calls' = IF Len(year_calls) = 2
                            THEN <<year_calls[2], call>>
                            ELSE Append(year_calls, call)
    /\ build_pc' = "called"
    /\ UNCHANGED <<YEAR_PLAYLISTS, build_in, year_buckets, genre_out>>
    /\ UNCHANGED <<syncVars, classifyVars>>

\* st.session_state["year_buckets"] = build_year_buckets(tracks)
BuildYearBuckets ==
    /\ build_pc = "idle"
    /\ \E ts \in ItemSeqs :
          /\ build_in' = [tracks |-> ts, ai_results |-> <<>>]
          /\ year_buckets' = build_year_buckets(ts)
    /\ build_pc' = "year"
    /\ UNCHANGED <<YEAR_PLAYLISTS, year_calls, genre_out>>
    /\ UNCHANGED <<syncVars, classifyVars>>

\* genre_buckets = build_genre_buckets(tracks, classifications)
BuildGenreBuckets ==
    /\ build_pc = "idle"
    /\ \E ts \in ItemSeqs, ai \in AiMaps :
          /\ build_in' = [tracks |-> ts, ai_results |-> ai]
          /\ genre_out' = build_genre_buckets(ts, ai)
    /\ build_pc' = "genre"
    /\ UNCHANGED <<YEAR_PLAYLISTS, year_calls, year_buckets>>
    /\ UNCHANGED <<syncVars, classifyVars>>

NextBuild ==
    \/ ClassifyByYear
    \/ BuildYearBuckets
    \/ BuildGenreBuckets

SpecBuild == InitBuild /\ [][NextBuild]_vars

-----------------------------------------------------------------------------
(* Properties of classify_by_year and of the bucket builders *)

YearOf(track) == Get(track, "release_year", 0)

CallsOfYear == {year_calls[n] : n \in 1..Len(year_calls)}

\* C16: classify_by_year returns None or a key of YEAR_PLAYLISTS, and two
\* calls with the same item under the same table return the same result.
C16_KeyOrNone ==
    /\ \A c \in CallsOfYear : c.returned = None \/ c.returned \in YearKeys
    /\ \A c, d \in CallsOfYear : c.track = d.track => c.returned = d.returned

\* the same item was classified twice, to a key both times
C16_Witness ==
    /\ Len(year_calls) = 2
    /\ year_calls[1].track = year_calls[2].track
    /\ year_calls[2].returned \in YearKeys

\* C17: classify_by_year returns None for an item whose release_year is 0,
\* negative or absent, whatever the table holds.
C17_NoneUpToZero ==
    \A c \in CallsOfYear : YearOf(c.track) <= 0 => c.returned = None

\* an item of the year 0 was classified under a table with an interval
\* that holds 0, and one without release_year too
C17_Witness ==
    /\ Len(year_calls) = 2
    /\ "release_year" \in DOMAIN year_calls[1].track
    /\ year_calls[1].track.release_year = 0
    /\ "release_year" \notin DOMAIN year_calls[2].track
    /\ \E n \in 1..Len(YEAR_PLAYLISTS) :
          YEAR_PLAYLISTS[n].start <= 0 /\ 0 <= YEAR_PLAYLISTS[n].end
    /\ year_calls[1].returned = None

Holds(n, year) ==
    YEAR_PLAYLISTS[n].start <= year /\ year <= YEAR_PLAYLISTS[n].end

\* C18: for release_year > 0 classify_by_year returns the name of the first
\* entry, in table order, whose interval holds the year (bounds included),
\* and None exactly when no interval holds it.
C18_FirstMatch ==
    \A c \in CallsOfYear :
        LET year == YearOf(c.track)
            rows == 1..Len(YEAR_PLAYLISTS)
        IN  year > 0 =>
              /\ c.returned = None <=> ~\E n \in rows : Holds(n, year)
              /\ \A n \in rows :
                    Holds(n, year) /\ (\A m \in 1..(n - 1) : ~Holds(m, year))
                       => c.returned = YEAR_PLAYLISTS[n].name

\* a year on the end of one interval and inside a later one was classified
\* to the earlier entry
C18_Witness ==
    \E c \in CallsOfYear :
        \E n, m \in 1..Len(YEAR_PLAYLISTS) :
            /\ n < m
            /\ YearOf(c.track) = YEAR_PLAYLISTS[n].end
            /\ Holds(m, YearOf(c.track))
            /\ \A j \in 1..(n - 1) : ~Holds(j, YearOf(c.track))
            /\ c.returned = YEAR_PLAYLISTS[n].name

NoItemTwice(bucket) ==
    \A i, j \in 1..Len(bucket) : i # j => bucket[i] # bucket[j]

\* C19: no bucket of build_year_buckets or of build_genre_buckets holds the
\* same item twice, whatever the item sequence and the AI result map.
C19_NoItemTwice ==
    /\ \A name \in DOMAIN year_buckets : NoItemTwice(year_buckets[name])
    /\ \A cat \in DOMAIN genre_out : NoItemTwice(genre_out[cat])

ListedFor(ts, ai) ==
    {cat \in UNION {LabelSet(ai[l]) : l \in DOMAIN ai} :
        \E k \in 1..Len(ts) : ts[k].label \in DOMAIN ai
                                /\ cat \in LabelSet(ai[ts[k].label])}

\* C20 as stated: every key of the map of build_genre_buckets is in
\* GENRE_PLAYLISTS or is the fallback.
C20_KeysInVocabulary ==
    build_pc = "genre" => DOMAIN genre_out \subseteq Vocabulary \cup {ToReview}

\* C20: the keys of the map of build_genre_buckets are the names of
\* GENRE_PLAYLISTS, the fallback, and every category that the AI result map
\* lists for the label of one of the tracks.
C20_KeysVocabularyOrListed ==
    build_pc = "genre" =>
        DOMAIN genre_out = Vocabulary \cup {ToReview}
                              \cup ListedFor(build_in.tracks, build_in.ai_results)

\* a map listing a category outside GENRE_PLAYLISTS for a track was built
C20_Witness ==
    /\ build_pc = "genre"
    /\ Rock \in DOMAIN genre_out
    /\ Rock \notin Vocabulary
    /\ Len(genre_out[Rock]) > 0

-----------------------------------------------------------------------------
(* Properties of the buckets built from the engine's results *)

\* the buckets of a map that hold the item
BucketsOf(out, item) ==
    {cat \in DOMAIN out : \E i \in 1..Len(out[cat]) : out[cat][i] = item}

\* C21: an item whose label has no entry, or an empty list, in the AI
\* results is placed by build_genre_buckets in exactly one bucket, and that
\* bucket is the default category _classify_batch gives a label without a
\* valid category.
C21_SingleDefault ==
    build_pc = "genre" =>
        \A k \in 1..Len(build_in.tracks) :
            Categories(build_in.ai_results, build_in.tracks[k].label) = <<>>
               => BucketsOf(genre_out, build_in.tracks[k]) = {DefaultCategory}

\* C22 as stated: every item is in at most 2 genre buckets and in at most 1
\* year bucket.
C22_AtMostTwoAndOne ==
    \A k \in 1..Len(tracks) :
        /\ Cardinality(BucketsOf(genre_buckets, tracks[k])) <= 2
        /\ Cardinality(BucketsOf(year_buckets, tracks[k])) <= 1

\* C22: in the buckets built from the engine's results every item is in at
\* most 4 genre buckets, those of the categories kept for its label, and in
\* at most 1 year bucket.
C22_AtMostFourAndOne ==
    /\ \A k \in 1..Len(tracks) :
          /\ Cardinality(BucketsOf(genre_buckets, tracks[k])) <= 4
          /\ Cardinality(BucketsOf(year_buckets, tracks[k])) <= 1
    /\ (gen_pc = "idle" /\ classifications # <<>>) =>
          \A k \in 1..Len(tracks) :
              tracks[k].label \in DOMAIN classifications =>
                 /\ Len(classifications[tracks[k].label]) <= 4
                 /\ BucketsOf(genre_buckets, tracks[k])
                       = LabelSet(classifications[tracks[k].label])

\* a run ended with an item in four genre buckets and in one year bucket
C22_Witness ==
    /\ gen_pc = "idle"
    /\ runs > 0
    /\ \E k \in 1..Len(tracks) :
          /\ Cardinality(BucketsOf(genre_buckets, tracks[k])) = 4
          /\ Cardinality(BucketsOf(year_buckets, tracks[k])) = 1

-----------------------------------------------------------------------------
(* Properties of classify_all_tracks with respect to stored results *)

\* the labels of the input that the store held before this run merged any
CachedInput ==
    {l \in LabelSet(TrackLabels) :
        l \in DOMAIN classifications /\ l \notin DOMAIN kept}

FirstDispatch == gen_pc = "attempt" /\ Len(dispatched) = 1

\* C25: when some labels of the input are in the store already, a step
\* carrying their stored results has been yielded before the first batch
\* is sent to the external classifier; when none is, no step has.
C25_CachedStepFirst ==
    FirstDispatch =>
        IF CachedInput = {} THEN steps = <<>>
        ELSE /\ Len(steps) >= 1
             /\ \A l \in CachedInput :
                   l \in DOMAIN handed /\ handed[l] = classifications[l]

\* the positions <<batch, place>> of the labels sent in this run
Sent == {p \in (1..Len(dispatched)) \X (1..BATCH_SIZE) :
            p[2] <= Len(dispatched[p[1]])}

\* C26: classify_all_tracks sends only the distinct labels missing from the
\* store: a label shared by two items is sent once in the run, and a label
\* the store holds is not sent.
C26_OnlyMissingDistinct ==
    /\ \A p, q \in Sent :
          p # q => dispatched[p[1]][p[2]] # dispatched[q[1]][q[2]]
    /\ FirstDispatch =>
          \A l \in LabelSet(dispatched[1]) : l \notin DOMAIN classifications

-----------------------------------------------------------------------------
(* Properties of the pacing and of the termination of classify_all_tracks *)

\* C28: between the calls of two consecutive batches classify_all_tracks
\* sleeps the same fixed delay, once, after the step of the earlier batch
\* was yielded and consumed and before the first call of the later one,
\* whether the earlier batch returned a result or fell back.
C28_FixedPause ==
    /\ [](\A n \in 1..Len(pauses) : pauses[n] = 10)
    /\ [](Len(dispatched) > 0 => Len(pauses) = Len(dispatched) - 1)
    /\ [][(pauses' # pauses /\ pauses' # <<>>) =>
             /\ gen_pc = "pull"
             /\ Len(steps) = Len(pauses')
             /\ Len(dispatched') = Len(pauses') + 1
             /\ calls' = 0]_vars

\* the second batch of a run is at its first attempt, one sleep behind it
C28_Witness ==
    /\ gen_pc = "attempt"
    /\ Len(dispatched) = 2
    /\ Len(steps) = 1
    /\ pauses = <<10>>
    /\ calls = 0

\* C29: an error raised while a batch is classified touches that batch
\* only: no failing attempt changes the store, and when the batch ends by
\* giving up, the results of the batches merged before it in the run are
\* in the store as they were merged.
C29_ErrorLeavesEarlier ==
    /\ [][calls' > calls => classifications' = classifications]_vars
    /\ [][(Exhausted /\ gen_pc' = "pull") =>
             \A l \in DOMAIN kept :
                 /\ l \in DOMAIN classifications'
                 /\ classifications'[l] = kept[l]]_vars

\* what a run has left to do at most: the batches not yet entered, each
\* with its attempts, its yield and its merge, and the rest of this batch
Remaining ==
    LET later == ((Len(tracks) + BATCH_SIZE - 1) \div BATCH_SIZE)
                     - Len(dispatched)
        rest  == CASE gen_pc = "attempt" -> (MAX_RETRIES - attempt + 1) + 2
                   [] gen_pc = "yielded" -> 2
                   [] gen_pc = "pull"    -> 1
                   [] OTHER              -> 0
    IN  IF is_running THEN later * (MAX_RETRIES + 3) + rest ELSE 0

\* C30: whatever the external classifier does, a consumed run of
\* classify_all_tracks ends: every step of it comes nearer to the end, no
\* batch has more than MAX_RETRIES calls, no more than ceil(n / BATCH_SIZE)
\* batches are entered, and the run that ends by itself has yielded exactly
\* ceil(n / BATCH_SIZE) steps.
C30_BoundedRun ==
    /\ [](Remaining >= 0)
    /\ [][is_running => Remaining' < Remaining]_vars
    /\ [](calls <= MAX_RETRIES /\ attempt <= MAX_RETRIES)
    /\ [](Len(dispatched) <= (Len(tracks) + BATCH_SIZE - 1) \div BATCH_SIZE)
    /\ [](Completed =>
            Len(steps) = (Len(tracks) + BATCH_SIZE - 1) \div BATCH_SIZE)

\* a run of two batches ended by itself after the classifier had failed on
\* every call of its last batch
C30_Witness ==
    /\ Completed
    /\ Len(steps) = 2
    /\ Len(tracks) > BATCH_SIZE
    /\ \A l \in LabelSet(Batch(offset)) : kept[l] = <<DefaultCategory>>

-----------------------------------------------------------------------------
(* The store of the classifications across sessions *)

-----------------------------------------------------------------------------
(* What the classifiers and the aggregators leave alone *)

\* the items of a bucket map, whatever the bucket
Bucketed(out) == UNION {{out[cat][i] : i \in 1..Len(out[cat])} : cat \in DOMAIN out}

\* C32: classify_by_year, build_year_buckets, build_genre_buckets and
\* classify_all_tracks modify no item: no step changes the input list, its
\* items or their order, and what the buckets hold are the items of the
\* input as they are in it.
C32_ItemsUnchanged ==
    /\ [][tracks' = tracks]_vars
    /\ [](Bucketed(year_buckets) \subseteq {tracks[k] : k \in 1..Len(tracks)})
    /\ [](Bucketed(genre_buckets) \subseteq {tracks[k] : k \in 1..Len(tracks)})
    /\ [](\A k \in 1..Len(TrackLabels) : TrackLabels[k] = tracks[k].label)

\* a run over two batches was consumed to its end and the buckets of the
\* years and of the genres were built from its items
C32_Witness ==
    /\ Completed
    /\ Len(tracks) > BATCH_SIZE
    /\ Len(steps) = 2
    /\ Bucketed(year_buckets) # {}
    /\ Bucketed(genre_buckets) = {tracks[k] : k \in 1..Len(tracks)}

-----------------------------------------------------------------------------
(* The truncation of the returned lists *)

\* C33: the list the external classifier returned for a label is cut to its
\* first four entries before validation: what is kept for the label is the
\* outcome of validating those four alone, in the order they were given, so
\* no entry after the fourth is validated or kept.
C33_FirstFourValidated ==
    (Yielded /\ returnedAt # 0) =>
        \A l \in DOMAIN batch_result :
            LET raw   == Get(seen.raw, l, <<>>)
                first == [n \in 1..Min(4, Len(raw)) |-> raw[n]]
            IN  /\ batch_result[l] = OrDefault(ValidatedCats(first, valid_order))
                /\ Len(batch_result[l]) <= 4

\* the response held five categories of the vocabulary for a label, the
\* fifth unlike the fourth, and the first four were kept in their order
C33_Witness ==
    /\ Yielded
    /\ returnedAt # 0
    /\ \E l \in DOMAIN batch_result :
          /\ l \in DOMAIN seen.raw
          /\ Len(seen.raw[l]) = 5
          /\ seen.raw[l][5] # seen.raw[l][4]
          /\ batch_result[l] = SubSeq(seen.raw[l], 1, 4)

-----------------------------------------------------------------------------
(* The replacement of a returned category by a member of the vocabulary *)

\* the first four entries of the list the response held for a label
FirstFour(l) ==
    LET raw == Get(seen.raw, l, <<>>)
    IN  [n \in 1..Min(4, Len(raw)) |-> raw[n]]

\* the text of a member after its leading glyph contains text, or is
\* contained in it
Related(text, member) ==
    IsSubstring(VText(member), text) \/ IsSubstring(text, VText(member))

\* what validation made of candidate c, given that relation R decides which
\* member may replace it: c itself when it is a member, else one member that
\* R relates to c, else nothing, and nothing only if R relates no member
ValidatedBy(R(_, _), c) ==
    LET out == ValidatedCat(c, valid_order)
    IN  IF c \in Vocabulary THEN out = <<c>>
        ELSE \/ out = <<>> /\ (c = Null \/ \A m \in Vocabulary : ~R(c, m))
             \/ \E m \in Vocabulary : out = <<m>> /\ c # Null /\ R(c, m)

\* every entry kept for a label is the default standing alone, an entry of
\* the first four that is a member, or a member R relates to one of them
KeptBy(R(_, _), l) ==
    \/ batch_result[l] = <<DefaultCategory>>
    \/ \A i \in 1..Len(batch_result[l]) :
          \E n \in 1..Len(FirstFour(l)) :
              \/ FirstFour(l)[n] = batch_result[l][i]
              \/ /\ FirstFour(l)[n] \notin Vocabulary \cup {Null}
                 /\ R(FirstFour(l)[n], batch_result[l][i])

RelatedLower(c, m) == Related(Lower(c), m)

RelatedLowerStripped(c, m) == Related(Strip(Lower(c)), m)

\* C34 as stated: a returned category that is a member is kept as is; one
\* that is not is replaced by a member only when, compared without regard
\* to case, the member's text after its glyph contains the candidate or is
\* contained in it, and is rejected when there is no such member.
C34_ReplacedWhenRelated ==
    (Yielded /\ returnedAt # 0) =>
        \A l \in DOMAIN batch_result :
            /\ \A n \in 1..Len(FirstFour(l)) :
                  ValidatedBy(RelatedLower, FirstFour(l)[n])
            /\ KeptBy(RelatedLower, l)

\* C34: the same, the candidate compared without regard to case and
\* without the white space around it (candidate.lower().strip()).
C34_ReplacedWhenRelatedStripped ==
    (Yielded /\ returnedAt # 0) =>
        \A l \in DOMAIN batch_result :
            /\ \A n \in 1..Len(FirstFour(l)) :
                  ValidatedBy(RelatedLowerStripped, FirstFour(l)[n])
            /\ KeptBy(RelatedLowerStripped, l)

\* the response held " Po " and "Rock" for a label: the first was replaced
\* by a member whose text contains "po", the second was rejected
C34_Witness ==
    /\ Yielded
    /\ returnedAt # 0
    /\ \E l \in DOMAIN batch_result :
          /\ FirstFour(l) = <<PoPadded, Rock>>
          /\ Len(batch_result[l]) = 1
          /\ batch_result[l][1] \in {PopIta, PopHits}

-----------------------------------------------------------------------------
(* No item is lost by the genre aggregation *)

\* C35: every item of the list given to build_genre_buckets is in at least
\* one bucket of the map it returns, whatever the AI result map holds.
C35_NoItemLost ==
    build_pc = "genre" =>
        \A k \in 1..Len(build_in.tracks) :
            BucketsOf(genre_out, build_in.tracks[k]) # {}

\* two items went in: one whose label the AI results do not hold, one whose
\* label they give a category outside the vocabulary
C35_Witness ==
    /\ build_pc = "genre"
    /\ Len(build_in.tracks) = 2
    /\ build_in.tracks[1].label \notin DOMAIN build_in.ai_results
    /\ BucketsOf(genre_out, build_in.tracks[1]) = {ToReview}
    /\ Rock \in BucketsOf(genre_out, build_in.tracks[2])

-----------------------------------------------------------------------------
(* The keys of the result of a batch *)

\* C36: the keys of the result of _classify_batch are exactly the labels of
\* the batch, whatever the response: a label the response gives no entry
\* for has the default category alone, and a track the response names that
\* was not asked about has no entry.
C36_KeysAreLabels ==
    Yielded =>
        /\ DOMAIN batch_result = LabelSet(Batch(offset))
        /\ returnedAt # 0 =>
              /\ \A l \in LabelSet(Batch(offset)) \ DOMAIN seen.raw :
                    batch_result[l] = <<DefaultCategory>>
              /\ \A t \in DOMAIN seen.raw \ LabelSet(Batch(offset)) :
                    t \notin DOMAIN batch_result

\* the response named a track that was not asked about and none of the
\* labels of the batch
C36_Witness ==
    /\ Yielded
    /\ returnedAt # 0
    /\ DOMAIN seen.raw # {}
    /\ DOMAIN seen.raw \cap LabelSet(Batch(offset)) = {}
    /\ Cardinality(DOMAIN batch_result) = 2

-----------------------------------------------------------------------------
(* Repeated syncs and the creation of collections *)

\* the collections the program created under a name
CreatedAs(name) ==
    {id \in DOMAIN remote : id[1] = "new" /\ remote[id].name = name}

\* the listing holds a collection of that name
InListing(name) == \E i \in 1..Len(listing) : remote[listing[i]].name = name

\* C37: when the listing holds a collection of the category's name,
\* get_or_create_playlist issues no create request and creates nothing, so
\* whatever the number of syncs the program has created at most one
\* collection for a category name.
C37_NoSecondCreation ==
    /\ [](\A id \in DOMAIN remote : Cardinality(CreatedAs(remote[id].name)) <= 1)
    /\ [][(sync_pc = "resolve" /\ InListing(all_buckets[idx].name)) =>
             /\ nCreated' = nCreated
             /\ DOMAIN remote' = DOMAIN remote
             /\ lastResolve' # lastResolve => ~lastResolve'.create]_vars

\* a later sync resolved a category to the collection that an earlier sync
\* had created for it, and created nothing
C37_Witness ==
    /\ syncs >= 2
    /\ sync_pc = "write"
    /\ ~lastResolve.create
    /\ lastResolve.returned \in CreatedAs(lastResolve.name)
    /\ lastResolve.returned = playlist_id

-----------------------------------------------------------------------------
(* The mark of a completed sync *)

\* C38: create_playlists sets playlists_created only when every non-empty
\* category was resolved and written without an error: a run in which a
\* remote call failed, with the forbidden status or another, leaves the
\* flag unset.
C38_FlagOnlyOnSuccess ==
    [][(~playlists_created /\ playlists_created') =>
          \A j \in NonEmptyCategories :
              all_buckets[j].name \in DOMAIN written']_vars

-----------------------------------------------------------------------------
(* Validation under the orders in which the vocabulary may be iterated *)

\* C39: for the same response and the same vocabulary _classify_batch
\* returns the same category lists on every run: what was returned for a
\* label is what validation makes of the response's list under every order
\* in which a process may iterate the vocabulary.
C39_Deterministic ==
    (Yielded /\ returnedAt # 0) =>
        \A order \in Orders :
            \A l \in DOMAIN batch_result :
                batch_result[l] = OrDefault(ValidatedCats(FirstFour(l), order))

=============================================================================
